---- MODULE Spec2Model ----
(***************************************************************************)
(* Model of the DJ mix segmenter (segmenter.py): peak picking on a novelty *)
(* curve, chunked novelty recombination, and the verification / retry loop *)
(* of segment_mix.                                                         *)
(*                                                                         *)
(* Units.  Novelty values are in hundredths (0..100 stands for 0.0..1.0),  *)
(* sensitivities in tenths (0..10 stands for 0.0..1.0), times in           *)
(* milliseconds.  Frame indices are 0-based as in the code; position i of  *)
(* a TLA+ sequence holds frame i - 1.                                      *)
(***************************************************************************)
EXTENDS Integers, Sequences, FiniteSets, TLC

VARIABLES
    \* --- shared by the three specifications
    novelty,          \* the novelty curve handed to _find_peaks
    sr,               \* sample rate
    hop_length,       \* DJMixSegmenter.hop_length
    sensitivity,      \* sensitivity (of the first call / the current one)
    sens_b,           \* sensitivity of a second call on the same curve
    expected_count,   \* 0 stands for None
    boundaries,       \* boundary list in ms (of the first call / the current one)
    boundaries_b,     \* boundaries returned by the second call
    fp_mode,          \* "idle" | "input" | "threshold" | "count"
    \* --- segment_mix
    pc,               \* position in segment_mix
    tracklist,        \* the `tracklist` variable (reassigned before cue generation)
    supplied,         \* the tracklist argument as passed in
    recognize_tracks,
    verify_boundaries,
    recognized_tracklist,
    seg,              \* loop index i of the recognition pass
    submitted,        \* the extract_and_recognize_segment calls of the pass:
                      \* <<start_time, end_time, track_num>>
    mismatches,
    shown,            \* the mismatch entries last printed with their labels
    retry_count,
    new_sensitivity,
    cue,              \* TRACK blocks of the generated cue sheet
    exit_status,      \* process exit status, -1 while running
    detect_calls,     \* number of detect_boundaries invocations so far
    detect_failures,  \* number of detect_boundaries invocations that raised
    invalid_inputs,   \* operator inputs rejected in a row at the current prompt
    \* --- _detect_boundaries_chunked
    len_y,            \* len(y), the number of samples of the signal
    pending,          \* indices of the chunk tasks no worker has finished
    all_novelty,      \* worker results <<start_idx, novelty_chunk>> as they arrive
    chunk_pc,         \* "idle" | "workers" | "raised" | "done"
    \* --- one call of a function of the module, taken on its own
    call,             \* the arguments of the call
    returned,         \* what the call returned
    call_pc           \* "idle" | "input" | the function that has returned

peaksVars == <<novelty, sr, hop_length, sensitivity, sens_b, expected_count,
               boundaries, boundaries_b, fp_mode>>

mixVars == <<pc, tracklist, supplied, recognize_tracks, verify_boundaries,
             recognized_tracklist, seg, submitted, mismatches, shown, retry_count,
             new_sensitivity, cue, exit_status, detect_calls, detect_failures,
             invalid_inputs>>

chunkVars == <<len_y, pending, all_novelty, chunk_pc>>

callVars == <<call, returned, call_pc>>

vars == <<peaksVars, mixVars, chunkVars, callVars>>

----------------------------------------------------------------------------
(* Bounds of the model *)

MaxFrames == 7
MaxExpected == 3

(* Novelty levels; none coincides with a threshold 0.9 - s * 0.6, so the   *)
(* comparison novelty[i] > threshold does not depend on float rounding.    *)
Levels == {0, 50, 100}
Sensitivities == {0, 5, 10}
SampleRates == {1}
HopLengths == {20, 25, 30}

Abs(x) == IF x < 0 THEN -x ELSE x

RECURSIVE SeqsUpTo(_, _)
SeqsUpTo(S, n) ==
    IF n = 0 THEN {<<>>}
    ELSE LET shorter == SeqsUpTo(S, n - 1)
         IN shorter \cup {Append(s, x) : s \in {t \in shorter : Len(t) = n - 1}, x \in S}

----------------------------------------------------------------------------
(* DJMixSegmenter._find_peaks *)

threshold_inverted(sens) == 30 + sens * 6

\* threshold = 0.9 - (sensitivity * 0.6), in hundredths
threshold(sens) == 90 - sens * 6

min_distance_frames(rate, hop) == (60 * rate) \div hop

\* a frame that is not below its neighbours counts as a peak
plateau_is_peak(nov, i) ==
    /\ i >= 1
    /\ i <= Len(nov) - 2
    /\ nov[i + 1] >= nov[i]
    /\ nov[i + 1] >= nov[i + 2]

\* novelty[i] > novelty[i - 1] and novelty[i] > novelty[i + 1], i a frame index
IsLocalMax(nov, i) ==
    /\ i >= 1
    /\ i <= Len(nov) - 2
    /\ nov[i + 1] > nov[i]
    /\ nov[i + 1] > nov[i + 2]

\* the for loop of the threshold branch, from frame i on
\* (`unit` is the value that stands for 1.0 in nov: novelty[i] > threshold
\* reads nov * 100 > thr * unit)
RECURSIVE threshold_scan(_, _, _, _, _, _)
threshold_scan(nov, unit, thr, m, i, peaks) ==
    IF i > Len(nov) - 2 THEN peaks
    ELSE IF /\ nov[i + 1] * 100 > thr * unit
            /\ IsLocalMax(nov, i)
            /\ (peaks = <<>> \/ (i - peaks[Len(peaks)]) > m)
         THEN threshold_scan(nov, unit, thr, m, i + 1, Append(peaks, i))
         ELSE threshold_scan(nov, unit, thr, m, i + 1, peaks)

\* potential_peaks: every strict local maximum as <<frame, value>>, in frame order
RECURSIVE potential_peaks(_, _)
potential_peaks(nov, i) ==
    IF i > Len(nov) - 2 THEN <<>>
    ELSE IF IsLocalMax(nov, i)
         THEN <<(<<i, nov[i + 1]>>)>> \o potential_peaks(nov, i + 1)
         ELSE potential_peaks(nov, i + 1)

\* list.sort(key = value, reverse = True): stable, equal values keep frame order
RECURSIVE insert_desc(_, _)
insert_desc(sorted, x) ==
    IF sorted = <<>> THEN <<x>>
    ELSE IF Head(sorted)[2] >= x[2]
         THEN <<Head(sorted)>> \o insert_desc(Tail(sorted), x)
         ELSE <<x>> \o sorted

RECURSIVE sort_desc(_, _)
sort_desc(pp, acc) ==
    IF pp = <<>> THEN acc ELSE sort_desc(Tail(pp), insert_desc(acc, Head(pp)))

\* the selection loop without its break: every peak far enough from the
\* selected ones is taken
RECURSIVE select_all_spaced(_, _, _, _, _)
select_all_spaced(pp, k, m, target, peaks) ==
    IF k > Len(pp) THEN peaks
    ELSE LET peak_idx == pp[k][1]
             too_close == \E j \in 1..Len(peaks) : Abs(peak_idx - peaks[j]) < m
         IN select_all_spaced(pp, k + 1, m, target,
                              IF too_close THEN peaks ELSE Append(peaks, peak_idx))

\* the selection loop: append unless too close to a selected peak, then
\* break once len(peaks) >= target_boundaries
RECURSIVE select_peaks(_, _, _, _, _)
select_peaks(pp, k, m, target, peaks) ==
    IF k > Len(pp) THEN peaks
    ELSE LET peak_idx == pp[k][1]
             too_close == \E j \in 1..Len(peaks) : Abs(peak_idx - peaks[j]) < m
             peaks2 == IF too_close THEN peaks ELSE Append(peaks, peak_idx)
         IN IF Len(peaks2) >= target THEN peaks2
            ELSE select_peaks(pp, k + 1, m, target, peaks2)

\* peaks.sort()
RECURSIVE insert_asc(_, _)
insert_asc(sorted, x) ==
    IF sorted = <<>> THEN <<x>>
    ELSE IF Head(sorted) <= x
         THEN <<Head(sorted)>> \o insert_asc(Tail(sorted), x)
         ELSE <<x>> \o sorted

RECURSIVE sort_asc(_, _)
sort_asc(s, acc) ==
    IF s = <<>> THEN acc ELSE sort_asc(Tail(s), insert_asc(acc, Head(s)))

\* librosa.frames_to_time: frame * hop_length / sr seconds, here in ms
frames_to_time(peaks, rate, hop) ==
    [k \in 1..Len(peaks) |-> (peaks[k] * hop * 1000) \div rate]

count_peaks(nov, rate, hop, expected) ==
    sort_asc(select_peaks(sort_desc(potential_peaks(nov, 1), <<>>), 1,
                          min_distance_frames(rate, hop), expected - 1, <<>>),
             <<>>)

threshold_peaks(nov, unit, rate, hop, sens) ==
    threshold_scan(nov, unit, threshold(sens), min_distance_frames(rate, hop), 1, <<>>)

\* the threshold rule applied whatever expected_count is
find_peaks_thresholded(nov, unit, rate, hop, sens, expected) ==
    frames_to_time(threshold_peaks(nov, unit, rate, hop, sens), rate, hop)

\* `if expected_count:` is false for None and for 0
find_peaks_unit(nov, unit, rate, hop, sens, expected) ==
    frames_to_time(
        IF expected # 0 THEN count_peaks(nov, rate, hop, expected)
        ELSE threshold_peaks(nov, unit, rate, hop, sens),
        rate, hop)

\* _find_peaks on a curve normalised to [0, 1] in hundredths
find_peaks(nov, rate, hop, sens, expected) ==
    find_peaks_unit(nov, 100, rate, hop, sens, expected)

----------------------------------------------------------------------------
(* Optional values.  None is <<>>; a string is <<W>> with W the set of its *)
(* lower-cased words ("" is <<{}>>); a timestamp is <<t>> with t in ms.    *)
(* The strings of the model are empty or hold at least one word.           *)

None == <<>>
Str(words) == <<words>>
Truthy(s) == s # None /\ s[1] # {}

Max(a, b) == IF a > b THEN a ELSE b
Min(a, b) == IF a < b THEN a ELSE b

\* similarities are in units of 1 / SimScale, scores in units of 1 / (10 * SimScale)
SimScale == 2 * 3

calculate_string_similarity(str1, str2) ==
    IF str1 = None \/ str2 = None THEN 0
    ELSE LET words1 == str1[1]
             words2 == str2[1]
         IN IF words1 = {} /\ words2 = {} THEN SimScale
            ELSE IF words1 = {} \/ words2 = {} THEN 0
            ELSE (Cardinality(words1 \cap words2) * SimScale)
                     \div Cardinality(words1 \cup words2)

weights_exchanged(recognized_artist, recognized_title, tracklist_artist, tracklist_title) ==
    calculate_string_similarity(recognized_artist, tracklist_artist) * 6
        + calculate_string_similarity(recognized_title, tracklist_title) * 4

calculate_track_match_score(recognized_artist, recognized_title, tracklist_artist, tracklist_title) ==
    calculate_string_similarity(recognized_artist, tracklist_artist) * 4
        + calculate_string_similarity(recognized_title, tracklist_title) * 6

\* scores only the segment's own position
best_match_own_position(result, tl, pos, stop, best) ==
    LET own == best[2]
        score == calculate_track_match_score(result.artist, result.title,
                                             tl[own].artist, tl[own].title)
    IN IF score > best[1] THEN <<score, own>> ELSE best

\* the loop over search_range: best = <<best_score, best_match_pos>>
RECURSIVE best_match(_, _, _, _, _)
best_match(result, tl, pos, stop, best) ==
    IF pos >= stop THEN best
    ELSE LET score == calculate_track_match_score(result.artist, result.title,
                                                  tl[pos].artist, tl[pos].title)
         IN best_match(result, tl, pos + 1, stop,
                       IF score > best[1] THEN <<score, pos>> ELSE best)

Label(artist, title) == [artist |-> artist, title |-> title]

\* the mismatch entries one recognized result contributes (none or one)
score_result(result, tl) ==
    LET track_num == result.track_number
        best == best_match(result, tl, Max(1, track_num - 2),
                           Min(Len(tl) + 1, track_num + 3), <<0, track_num>>)
        entry(issue, best_pos) ==
            [track_num |-> track_num,
             recognized |-> Label(result.artist, result.title),
             expected |-> Label(tl[track_num].artist, tl[track_num].title),
             best_match |-> best_pos,
             offset |-> best_pos - track_num,
             score |-> best[1],
             issue |-> issue]
    IN IF best[1] < 5 * SimScale THEN <<entry("low_confidence", track_num)>>
       ELSE IF best[2] # track_num THEN <<entry("position_mismatch", best[2])>>
       ELSE <<>>

RECURSIVE find_mismatches(_, _)
find_mismatches(recognized, tl) ==
    IF recognized = <<>> THEN <<>>
    ELSE score_result(Head(recognized), tl) \o find_mismatches(Tail(recognized), tl)

\* tracklist[track_num - 1] raises IndexError for a track number past the list
scoring_raises(recognized, tl) ==
    \E k \in 1..Len(recognized) : recognized[k].track_number > Len(tl)

----------------------------------------------------------------------------
(* CueSheetGenerator *)

\* frames rounded to the nearest instead of cut off
cue_time_rounded(ms) ==
    LET remaining == ms % 60000
    IN <<ms \div 60000, remaining \div 1000, ((remaining % 1000) * 75 + 500) \div 1000>>

\* MM:SS:FF as <<MM, SS, FF>>
seconds_to_cue_time(ms) ==
    LET remaining == ms % 60000
    IN <<ms \div 60000, remaining \div 1000, ((remaining % 1000) * 75) \div 1000>>

get_track_info(tl, track_num) ==
    IF tl # <<>> /\ track_num <= Len(tl)
    THEN <<tl[track_num].artist, tl[track_num].title>>
    ELSE <<None, None>>

\* one TRACK block; `synthesized` stands for the TITLE "Track NN" line
cue_block(tl, track_num, cue_time) ==
    LET performer == get_track_info(tl, track_num)[1]
        title == get_track_info(tl, track_num)[2]
    IN [track |-> track_num,
        performer |-> IF Truthy(performer) THEN performer ELSE None,
        title |-> IF Truthy(title) THEN title ELSE None,
        synthesized |-> ~Truthy(title) /\ ~Truthy(performer),
        index |-> cue_time]

\* a block per boundary and none for the start of the mix
generate_cue_boundaries_only(bnds, tl) ==
    [k \in 1..Len(bnds) |-> cue_block(tl, k, seconds_to_cue_time(bnds[k]))]

generate_cue(bnds, tl) ==
    <<cue_block(tl, 1, <<0, 0, 0>>)>>
        \o [k \in 1..Len(bnds) |-> cue_block(tl, k + 1, seconds_to_cue_time(bnds[k]))]

\* the decimal digits of n
RECURSIVE Digits(_)
Digits(n) == IF n < 10 THEN <<n>> ELSE Append(Digits(n \div 10), n % 10)

\* f"{n:02d}"
format_02d(n) == IF n < 10 THEN <<0, n>> ELSE Digits(n)

\* f"{minutes:02d}:{secs:02d}:{frames:02d}", the three fields in order
cue_time_string(parts) == [k \in 1..3 |-> format_02d(parts[k])]

\* FILE type by extension
file_type(ext) ==
    IF ext = ".mp3" THEN "MP3"
    ELSE IF ext = ".m4a" THEN "MP4"
    ELSE IF ext = ".aac" \/ ext = ".wav" THEN "WAVE"
    ELSE "MP3"

\* the lines of one TRACK block
block_lines(block) ==
    <<[kind |-> "TRACK", text |-> format_02d(block.track)]>>
        \o (IF block.performer # None
            THEN <<[kind |-> "PERFORMER", text |-> block.performer]>> ELSE <<>>)
        \o (IF block.title # None THEN <<[kind |-> "TITLE", text |-> block.title]>>
            ELSE IF block.synthesized
                 THEN <<[kind |-> "TITLE", text |-> <<"Track", format_02d(block.track)>>]>>
                 ELSE <<>>)
        \o <<[kind |-> "INDEX", text |-> cue_time_string(block.index)]>>

RECURSIVE blocks_lines(_)
blocks_lines(blocks) ==
    IF blocks = <<>> THEN <<>>
    ELSE block_lines(Head(blocks)) \o blocks_lines(Tail(blocks))

\* cue_content: the FILE line, then the lines of the blocks
cue_content(ext, blocks) ==
    <<[kind |-> "FILE", text |-> file_type(ext)]>> \o blocks_lines(blocks)

----------------------------------------------------------------------------
(* segment_mix *)

max_retries == 3

\* bounds of what a run is put through: rejected operator inputs, failing
\* re-detections, tracks of the supplied tracklist
MaxInvalid == 4
MaxDetectFailures == 1
MaxTracks == 3

\* tracklist and any(t.timestamp is not None for t in tracklist)
has_timestamps(tl) == tl # <<>> /\ \E k \in 1..Len(tl) : tl[k].timestamp # None

\* [t.timestamp for t in tracklist[1:] if t.timestamp is not None]
timestamp_boundaries(tl) ==
    LET timed == SelectSeq(Tail(tl), LAMBDA t : t.timestamp # None)
    IN [k \in 1..Len(timed) |-> timed[k].timestamp[1]]

\* detect_boundaries: the novelty curve of the mix, built directly or from
\* chunks, handed to _find_peaks
detect_boundaries(nov, rate, hop, sens, expected) ==
    find_peaks(nov, rate, hop, sens, expected)

\* MusicRecognizer.match_with_tracklist: no match (0) when the result lacks artist
\* or title; otherwise the best SequenceMatcher ratio over the tracks that have
\* both decides, which the model leaves open
match_with_tracklist(result, tl) ==
    IF ~Truthy(result.artist) \/ ~Truthy(result.title) THEN {0}
    ELSE {0} \cup {tl[k].number : k \in {j \in 1..Len(tl) :
                                          Truthy(tl[j].artist) /\ Truthy(tl[j].title)}}

\* the result appended for a segment once the tracklist match is applied
matched_result(result, tl, matched_num) ==
    IF matched_num # 0 /\ matched_num <= Len(tl)
    THEN [result EXCEPT !.artist = tl[matched_num].artist,
                        !.title = tl[matched_num].title]
    ELSE result

\* what the recognition services may answer for a segment
RecOutcomes ==
    {Label(Str({"x"}), Str({"y"})), Label(Str({"z"}), Str({"x"}))}

TrackNames ==
    {Label(Str({"x"}), Str({"y"})), Label(None, Str({"x", "y"}))}

\* timestamps of a tracklist of n tracks: none; one every 100 s; the same
\* in descending order; one every 5 s; on the last track only; on the first only
TimePatterns(n) ==
    {[k \in 1..n |-> None],
     [k \in 1..n |-> <<(k - 1) * 100000>>],
     [k \in 1..n |-> <<(n - k) * 100000>>],
     [k \in 1..n |-> <<(k - 1) * 5000>>],
     [k \in 1..n |-> IF k = n THEN <<100000>> ELSE None],
     [k \in 1..n |-> IF k = 1 THEN <<0>> ELSE None]}

\* names of a tracklist of n tracks: one label on the odd positions, one on the
\* even positions
NamePatterns(n) ==
    {[k \in 1..n |-> IF k % 2 = 1 THEN odd ELSE even] : odd, even \in TrackNames}

Tracklists ==
    UNION {{[k \in 1..n |->
                [number |-> k, artist |-> names[k].artist, title |-> names[k].title,
                 timestamp |-> times[k]]] :
               names \in NamePatterns(n),
               times \in TimePatterns(n)} : n \in 0..MaxTracks}

MixCurves ==
    {<<0, 0, 0, 0, 0>>,
     <<0, 100, 0, 50, 0, 100, 0, 50, 0>>}

RetrySensitivities == {0, 10}

MixHops == {30}

callIdle ==
    /\ call = <<>>
    /\ returned = <<>>
    /\ call_pc = "idle"

chunkIdle ==
    /\ len_y = 0
    /\ pending = {}
    /\ all_novelty = <<>>
    /\ chunk_pc = "idle"

peaksIdle ==
    /\ sens_b = 0
    /\ expected_count = 0
    /\ boundaries_b = <<>>
    /\ fp_mode = "idle"

MixInit ==
    /\ novelty \in MixCurves
    /\ sr \in SampleRates
    /\ hop_length \in MixHops
    /\ sensitivity = 5
    /\ boundaries = <<>>
    /\ peaksIdle
    /\ pc = "start"
    /\ tracklist \in Tracklists
    /\ supplied = tracklist
    /\ recognize_tracks \in BOOLEAN
    /\ verify_boundaries \in BOOLEAN
    /\ recognized_tracklist = <<>>
    /\ seg = 0
    /\ submitted = <<>>
    /\ mismatches = <<>>
    /\ shown = <<>>
    /\ retry_count = 0
    /\ new_sensitivity = 5
    /\ cue = <<>>
    /\ exit_status = -1
    /\ detect_calls = 0
    /\ detect_failures = 0
    /\ invalid_inputs = 0
    /\ chunkIdle
    /\ callIdle

inputVars == <<novelty, sr, hop_length, sens_b, expected_count, boundaries_b,
               fp_mode, supplied, verify_boundaries, chunkVars, callVars>>

\* load_audio raises RuntimeError: nothing in segment_mix catches it
LoadAudioFails ==
    /\ pc = "start"
    /\ pc' = "fatal"
    /\ exit_status' = 1
    /\ UNCHANGED <<inputVars, submitted, shown, sensitivity, boundaries, tracklist, recognize_tracks,
                   recognized_tracklist, seg, mismatches, retry_count,
                   new_sensitivity, cue, detect_calls, detect_failures, invalid_inputs>>

\* boundaries from the tracklist timestamps, else from detect_boundaries; then
\* verification switches recognition on
InitialBoundaries ==
    /\ pc = "start"
    /\ IF has_timestamps(tracklist)
       THEN /\ boundaries' = timestamp_boundaries(tracklist)
            /\ UNCHANGED detect_calls
       ELSE /\ boundaries' = detect_boundaries(novelty, sr, hop_length, sensitivity,
                                               Len(tracklist))
            /\ detect_calls' = detect_calls + 1
    /\ recognize_tracks' = (recognize_tracks \/ (verify_boundaries /\ tracklist # <<>>))
    /\ pc' = IF recognize_tracks' THEN "recognize" ELSE "cue"
    /\ UNCHANGED <<inputVars, submitted, shown, sensitivity, tracklist, recognized_tracklist, seg,
                   mismatches, retry_count, new_sensitivity, cue, exit_status,
                   detect_failures, invalid_inputs>>

\* the first detect_boundaries call raises (a chunk worker failed): the
\* exception leaves segment_mix and __main__ exits with status 1
InitialDetectFails ==
    /\ pc = "start"
    /\ ~has_timestamps(tracklist)
    /\ detect_calls' = detect_calls + 1
    /\ detect_failures' = detect_failures + 1
    /\ pc' = "fatal"
    /\ exit_status' = 1
    /\ UNCHANGED <<inputVars, submitted, shown, sensitivity, boundaries, tracklist, recognize_tracks,
                   recognized_tracklist, seg, mismatches, retry_count,
                   new_sensitivity, cue, invalid_inputs>>

\* the import of music_recognizer or MusicRecognizer() raises: warning, then cue
RecognizerUnavailable ==
    /\ pc = "recognize"
    /\ seg = 0
    /\ submitted = <<>>
    /\ pc' = "cue"
    /\ UNCHANGED <<inputVars, submitted, shown, sensitivity, boundaries, tracklist, recognize_tracks,
                   recognized_tracklist, seg, mismatches, retry_count,
                   new_sensitivity, cue, exit_status, detect_calls, detect_failures,
                   invalid_inputs>>

\* MusicRecognizer.extract_and_recognize_segment: None for a segment under 10 s,
\* for an extraction or service error and for no match
extract_and_recognize_segment(start_time, end_time, track_number) ==
    IF end_time - start_time < 10000 THEN {None}
    ELSE {None} \cup
         {<<[track_number |-> track_number, artist |-> o.artist,
             title |-> o.title]>> : o \in RecOutcomes}

\* the failure of one segment ends the pass
abort_on_no_result(position) == "cue"

\* `if result: ... else: print("No match found")`: the loop goes on
after_no_result(position) == position

\* every segment starts at the beginning of the mix
segment_from_mix_start(all_boundaries, i) ==
    <<all_boundaries[1], all_boundaries[i + 2], i + 1>>

\* start_time, end_time and track_num of iteration i of the loop
segment_of(all_boundaries, i) ==
    <<all_boundaries[i + 1], all_boundaries[i + 2], i + 1>>

\* one iteration of the recognition loop (of the first pass or of a retry)
RecognizeSegment ==
    /\ pc \in {"recognize", "rerecognize"}
    /\ seg < Len(boundaries)
    /\ submitted' = Append(submitted, segment_of(<<0>> \o boundaries, seg))
    /\ LET start_time == submitted'[seg + 1][1]
           end_time == submitted'[seg + 1][2]
           track_num == submitted'[seg + 1][3]
       IN \E r \in extract_and_recognize_segment(start_time, end_time, track_num) :
            IF r = None
            THEN /\ pc' = after_no_result(pc)
                 /\ UNCHANGED recognized_tracklist
            ELSE /\ pc' = pc
                 /\ \E matched_num \in (IF tracklist # <<>>
                                         THEN match_with_tracklist(r[1], tracklist)
                                         ELSE {0}) :
                        recognized_tracklist' =
                            Append(recognized_tracklist,
                                   matched_result(r[1], tracklist, matched_num))
    /\ seg' = seg + 1
    /\ UNCHANGED <<inputVars, shown, sensitivity, boundaries, tracklist, recognize_tracks,
                   mismatches, retry_count, new_sensitivity, cue, exit_status,
                   detect_calls, detect_failures, invalid_inputs>>

\* tempfile.NamedTemporaryFile raises before the try block of
\* extract_and_recognize_segment: segment_mix catches it with `except Exception`,
\* warns, and goes on to the cue sheet
SegmentTempFileFails ==
    /\ pc \in {"recognize", "rerecognize"}
    /\ seg < Len(boundaries)
    /\ LET all_boundaries == <<0>> \o boundaries
       IN all_boundaries[seg + 2] - all_boundaries[seg + 1] >= 10000
    /\ submitted' = Append(submitted, segment_of(<<0>> \o boundaries, seg))
    /\ pc' = "cue"
    /\ UNCHANGED <<inputVars, shown, sensitivity, boundaries, tracklist, recognize_tracks,
                   recognized_tracklist, seg, mismatches, retry_count,
                   new_sensitivity, cue, exit_status, detect_calls, detect_failures,
                   invalid_inputs>>

\* end of the first pass: score the results when verification applies and
\* enter the prompt loop on a mismatch
FinishPass ==
    /\ pc = "recognize"
    /\ seg = Len(boundaries)
    /\ IF verify_boundaries /\ tracklist # <<>> /\ recognized_tracklist # <<>>
       THEN IF scoring_raises(recognized_tracklist, tracklist)
            THEN /\ pc' = "cue"
                 /\ UNCHANGED mismatches
            ELSE /\ mismatches' = find_mismatches(recognized_tracklist, tracklist)
                 /\ pc' = IF mismatches' # <<>> THEN "prompt" ELSE "convert"
       ELSE /\ pc' = "convert"
            /\ UNCHANGED mismatches
    /\ shown' = IF pc' = "prompt" THEN mismatches' ELSE shown
    /\ retry_count' = 0
    /\ UNCHANGED <<inputVars, submitted, sensitivity, boundaries, tracklist, recognize_tracks,
                   recognized_tracklist, seg, new_sensitivity, cue, exit_status,
                   detect_calls, detect_failures, invalid_inputs>>

promptFrame == <<inputVars, submitted, shown, sensitivity, boundaries, tracklist, recognize_tracks,
                 recognized_tracklist, seg, mismatches, retry_count,
                 new_sensitivity, cue, detect_calls, detect_failures>>

\* choice "" or "1": continue with the current boundaries
OperatorAccept ==
    /\ pc = "prompt"
    /\ pc' = "convert"
    /\ invalid_inputs' = 0
    /\ UNCHANGED <<promptFrame, exit_status>>

\* choice "2", then an empty sensitivity: "No sensitivity change, continuing..."
OperatorRetryNoChange ==
    /\ pc = "prompt"
    /\ pc' = "convert"
    /\ invalid_inputs' = 0
    /\ UNCHANGED <<promptFrame, exit_status>>

\* a rejected input uses up one retry
rejected_input_counted(rc) == rc + 1

\* `continue` without touching retry_count
after_rejected_input(rc) == rc

\* what a rejected input leaves alone
rejectFrame == <<inputVars, submitted, shown, sensitivity, boundaries, tracklist,
                 recognize_tracks, recognized_tracklist, seg, mismatches, cue,
                 detect_calls, detect_failures, exit_status, pc>>

\* the message is printed and the loop asks again
Reprompt ==
    /\ pc = "prompt"
    /\ invalid_inputs < MaxInvalid
    /\ invalid_inputs' = invalid_inputs + 1
    /\ retry_count' = after_rejected_input(retry_count)
    /\ UNCHANGED <<rejectFrame, new_sensitivity>>

\* a choice other than "", "1", "2", "3"
OperatorInvalidChoice == Reprompt

\* choice "2", then a sensitivity float() rejects
OperatorMalformedSensitivity == Reprompt

\* sensitivities the prompt rejects
OutOfRangeSensitivities == {-1, 11}

\* choice "2", then a sensitivity outside [0.0, 1.0]: new_sensitivity holds the
\* parsed value when the range test rejects it
OperatorSensitivityOutOfRange ==
    /\ pc = "prompt"
    /\ invalid_inputs < MaxInvalid
    /\ invalid_inputs' = invalid_inputs + 1
    /\ retry_count' = after_rejected_input(retry_count)
    /\ \E s \in OutOfRangeSensitivities :
          /\ ~(0 <= s /\ s <= 10)
          /\ new_sensitivity' = s
    /\ UNCHANGED rejectFrame

\* sys.exit(0)
Exit0 ==
    /\ pc = "prompt"
    /\ pc' = "aborted"
    /\ exit_status' = 0
    /\ invalid_inputs' = 0
    /\ UNCHANGED promptFrame

\* choice "3"
OperatorAbort == Exit0

\* EOFError from either input()
OperatorEOF == Exit0

\* KeyboardInterrupt from either input()
OperatorInterrupt == Exit0

retry_count_kept(rc) == rc

\* retry_count += 1
next_retry_count(rc) == rc + 1

\* the re-detection is not given a track count
retry_without_count(tl) == 0

\* the expected_count argument of the re-detection: len(tracklist)
retry_expected_count(tl) == Len(tl)

\* choice "2" with a sensitivity in range: re-detect with len(tracklist) and
\* start the recognition pass over
OperatorRetry ==
    /\ pc = "prompt"
    /\ \E s \in RetrySensitivities :
        /\ new_sensitivity' = s
        /\ boundaries' = detect_boundaries(novelty, sr, hop_length, s,
                                            retry_expected_count(tracklist))
    /\ detect_calls' = detect_calls + 1
    /\ recognized_tracklist' = <<>>
    /\ seg' = 0
    /\ submitted' = <<>>
    /\ pc' = "rerecognize"
    /\ invalid_inputs' = 0
    /\ UNCHANGED <<inputVars, shown, sensitivity, tracklist, recognize_tracks, mismatches,
                   retry_count, cue, exit_status, detect_failures>>

\* the re-detection raises: a ValueError is taken for a malformed sensitivity
\* (`continue`), any other Exception ends recognition with a warning
RetryDetectFails ==
    /\ pc = "prompt"
    /\ detect_failures < MaxDetectFailures
    /\ \E kind \in {"ValueError", "Exception"} :
        /\ pc' = IF kind = "ValueError" THEN "prompt" ELSE "cue"
        /\ invalid_inputs' = IF kind = "ValueError" THEN invalid_inputs ELSE 0
    /\ detect_calls' = detect_calls + 1
    /\ detect_failures' = detect_failures + 1
    /\ UNCHANGED <<inputVars, submitted, shown, sensitivity, boundaries, tracklist, recognize_tracks,
                   recognized_tracklist, seg, mismatches, retry_count,
                   new_sensitivity, cue, exit_status>>

\* end of a retry pass: count the retry, score again, leave the loop when the
\* results are clean or the budget is used up
FinishRetryPass ==
    /\ pc = "rerecognize"
    /\ seg = Len(boundaries)
    /\ sensitivity' = new_sensitivity
    /\ retry_count' = next_retry_count(retry_count)
    /\ IF scoring_raises(recognized_tracklist, tracklist)
       THEN /\ pc' = "cue"
            /\ mismatches' = <<>>
       ELSE /\ mismatches' = find_mismatches(recognized_tracklist, tracklist)
            /\ pc' = IF mismatches' = <<>> THEN "convert"
                     ELSE IF retry_count' >= max_retries THEN "convert"
                     ELSE "prompt"
    /\ shown' = IF pc' = "prompt" THEN mismatches' ELSE shown
    /\ UNCHANGED <<inputVars, submitted, boundaries, tracklist, recognize_tracks,
                   recognized_tracklist, seg, new_sensitivity, cue, exit_status,
                   detect_calls, detect_failures, invalid_inputs>>

\* tracklist = [Track(r.track_number, r.artist, r.title, None) for r in ...]
recognized_as_tracklist(recognized) ==
    [k \in 1..Len(recognized) |->
        [number |-> recognized[k].track_number, artist |-> recognized[k].artist,
         title |-> recognized[k].title, timestamp |-> None]]

\* the recognition results replace the tracklist, then the cue sheet is written
ConvertAndGenerateCue ==
    /\ pc = "convert"
    /\ tracklist' = IF recognized_tracklist # <<>>
                    THEN recognized_as_tracklist(recognized_tracklist)
                    ELSE tracklist
    /\ cue' = generate_cue(boundaries, tracklist')
    /\ pc' = "done"
    /\ exit_status' = 0
    /\ UNCHANGED <<inputVars, submitted, shown, sensitivity, boundaries, recognize_tracks,
                   recognized_tracklist, seg, mismatches, retry_count,
                   new_sensitivity, detect_calls, detect_failures, invalid_inputs>>

\* no recognition, or recognition ended by an exception: cue sheet from the
\* boundaries and the tracklist as they are
GenerateCue ==
    /\ pc = "cue"
    /\ cue' = generate_cue(boundaries, tracklist)
    /\ pc' = "done"
    /\ exit_status' = 0
    /\ UNCHANGED <<inputVars, submitted, shown, sensitivity, boundaries, tracklist, recognize_tracks,
                   recognized_tracklist, seg, mismatches, retry_count,
                   new_sensitivity, detect_calls, detect_failures, invalid_inputs>>

Next ==
    \/ LoadAudioFails
    \/ InitialBoundaries
    \/ InitialDetectFails
    \/ RecognizerUnavailable
    \/ RecognizeSegment
    \/ SegmentTempFileFails
    \/ FinishPass
    \/ OperatorAccept
    \/ OperatorRetryNoChange
    \/ OperatorInvalidChoice
    \/ OperatorMalformedSensitivity
    \/ OperatorSensitivityOutOfRange
    \/ OperatorAbort
    \/ OperatorEOF
    \/ OperatorInterrupt
    \/ OperatorRetry
    \/ RetryDetectFails
    \/ FinishRetryPass
    \/ ConvertAndGenerateCue
    \/ GenerateCue

Spec == MixInit /\ [][Next]_vars

mixIdle ==
    /\ pc = "idle"
    /\ tracklist = <<>>
    /\ supplied = <<>>
    /\ recognize_tracks = FALSE
    /\ verify_boundaries = FALSE
    /\ recognized_tracklist = <<>>
    /\ seg = 0
    /\ submitted = <<>>
    /\ mismatches = <<>>
    /\ shown = <<>>
    /\ retry_count = 0
    /\ new_sensitivity = 0
    /\ cue = <<>>
    /\ exit_status = -1
    /\ detect_calls = 0
    /\ detect_failures = 0
    /\ invalid_inputs = 0

----------------------------------------------------------------------------
(* The command line of segmenter.py (`if __name__ == "__main__"`).  It     *)
(* passes the audio file, the output path, the sensitivity and --recognize *)
(* to segment_mix: never a tracklist, never verify_boundaries.             *)

\* --sensitivity is parsed with type=float: any number is accepted by argparse
CliSensitivities == {-1, 0, 5, 10, 11}

\* only the upper end of the range is tested
sensitivity_upper_only(s) == s <= 10

\* `0.0 <= args.sensitivity <= 1.0`, in tenths
sensitivity_in_range(s) == 0 <= s /\ s <= 10

\* after parser.parse_args()
CliInit ==
    /\ novelty \in MixCurves
    /\ sr \in SampleRates
    /\ hop_length \in MixHops
    /\ sensitivity \in CliSensitivities
    /\ boundaries = <<>>
    /\ peaksIdle
    /\ pc = "main"
    /\ tracklist = <<>>
    /\ supplied = <<>>
    /\ recognize_tracks \in BOOLEAN
    /\ verify_boundaries = FALSE
    /\ recognized_tracklist = <<>>
    /\ seg = 0
    /\ submitted = <<>>
    /\ mismatches = <<>>
    /\ shown = <<>>
    /\ retry_count = 0
    /\ new_sensitivity = sensitivity
    /\ cue = <<>>
    /\ exit_status = -1
    /\ detect_calls = 0
    /\ detect_failures = 0
    /\ invalid_inputs = 0
    /\ chunkIdle
    /\ callIdle

\* "Error: Sensitivity must be between 0.0 and 1.0", sys.exit(1)
RejectSensitivity ==
    /\ pc = "main"
    /\ ~sensitivity_in_range(sensitivity)
    /\ pc' = "usage"
    /\ exit_status' = 1
    /\ UNCHANGED <<inputVars, submitted, shown, sensitivity, boundaries, tracklist, recognize_tracks,
                   recognized_tracklist, seg, mismatches, retry_count,
                   new_sensitivity, cue, detect_calls, detect_failures, invalid_inputs>>

\* segment_mix(args.audio_file, args.output, args.sensitivity,
\*             recognize_tracks=args.recognize)
CallSegmentMix ==
    /\ pc = "main"
    /\ sensitivity_in_range(sensitivity)
    /\ pc' = "start"
    /\ UNCHANGED <<inputVars, submitted, shown, sensitivity, boundaries, tracklist, recognize_tracks,
                   recognized_tracklist, seg, mismatches, retry_count,
                   new_sensitivity, cue, exit_status, detect_calls, detect_failures,
                   invalid_inputs>>

\* the steps of segment_mix that a run without tracklist can take
CliNext ==
    \/ RejectSensitivity
    \/ CallSegmentMix
    \/ LoadAudioFails
    \/ InitialBoundaries
    \/ InitialDetectFails
    \/ RecognizerUnavailable
    \/ RecognizeSegment
    \/ SegmentTempFileFails
    \/ FinishPass
    \/ ConvertAndGenerateCue
    \/ GenerateCue

SpecCli == CliInit /\ [][CliNext]_vars

----------------------------------------------------------------------------
(* DJMixSegmenter._detect_boundaries_chunked.  Weights are in units of     *)
(* 1 / WeightScale, combined novelty values in units of 1 / Denominator;   *)
(* with fades of at most three frames and at most two chunks over a frame  *)
(* every division below is exact.                                          *)

WeightScale == 1 * 2
Denominator == 3 * 4

chunk_duration == 10 * 60
overlap_seconds == 60

chunk_samples(rate) == chunk_duration * rate
overlap_samples(rate) == overlap_seconds * rate

\* chunks laid end to end
stride_whole_chunk(rate) == chunk_samples(rate)

stride_samples(rate) == chunk_samples(rate) - overlap_samples(rate)

\* the chunk count taken from the whole length
total_chunks_of_length(len, rate) ==
    (len + stride_samples(rate) - 1) \div stride_samples(rate)

\* int(np.ceil((len(y) - overlap_samples) / stride_samples))
total_chunks(len, rate) ==
    (len - overlap_samples(rate) + stride_samples(rate) - 1) \div stride_samples(rate)

chunk_start(i, rate) == i * stride_samples(rate)
chunk_end(i, len, rate) == Min(chunk_start(i, rate) + chunk_samples(rate), len)

\* librosa.time_to_frames(samples / sr, sr, hop_length) = floor(samples / hop_length)
time_to_frames(samples, hop) == samples \div hop

\* frames chroma_cqt returns for a chunk (centred frames): 1 + len(chunk) // hop
chunk_frames(i, len, rate, hop) ==
    1 + (chunk_end(i, len, rate) - chunk_start(i, rate)) \div hop

\* np.linspace(0, 1, n)[k] and np.linspace(1, 0, n)[k]
linspace_up(n, k) == IF n = 1 THEN 0 ELSE (k * WeightScale) \div (n - 1)
linspace_down(n, k) ==
    IF n = 1 THEN WeightScale ELSE WeightScale - (k * WeightScale) \div (n - 1)

\* weight[j]: ones, then weight[:fade_len], then weight[-fade_len:]
chunk_weight(chunk_len, fade_len, j) ==
    IF fade_len > 0 /\ j >= chunk_len - fade_len
    THEN linspace_down(fade_len, j - (chunk_len - fade_len))
    ELSE IF fade_len > 0 /\ j < fade_len THEN linspace_up(fade_len, j)
    ELSE WeightScale

blend_overwrite(old, contribution) == contribution

\* combined_novelty[start_frame:end_frame] += novelty_chunk[:chunk_len] * weight
blend_add(old, contribution) == old + contribution

\* frame layout of one worker result in the combined curve
start_frame(result, hop) == time_to_frames(result[1], hop)
end_frame(result, len, hop) ==
    Min(start_frame(result, hop) + Len(result[2]), time_to_frames(len, hop))
chunk_len(result, len, hop) == end_frame(result, len, hop) - start_frame(result, hop)
fade_len(result, len, rate, hop) ==
    Min(overlap_samples(rate) \div hop, chunk_len(result, len, hop) \div 4)
covers(result, len, hop, f) ==
    f >= start_frame(result, hop) /\ f < end_frame(result, len, hop)
weight(result, len, rate, hop, f) ==
    chunk_weight(chunk_len(result, len, hop), fade_len(result, len, rate, hop),
                 f - start_frame(result, hop))

\* combined_novelty[f] after the first k iterations of
\* `for start_idx, novelty_chunk in all_novelty`
RECURSIVE combined_novelty(_, _, _, _, _, _)
combined_novelty(results, k, len, rate, hop, f) ==
    IF k = 0 THEN 0
    ELSE IF covers(results[k], len, hop, f)
         THEN blend_add(combined_novelty(results, k - 1, len, rate, hop, f),
                        results[k][2][f - start_frame(results[k], hop) + 1]
                            * weight(results[k], len, rate, hop, f))
         ELSE combined_novelty(results, k - 1, len, rate, hop, f)

\* weights[f] after the first k iterations
RECURSIVE weights(_, _, _, _, _, _)
weights(results, k, len, rate, hop, f) ==
    IF k = 0 THEN 0
    ELSE weights(results, k - 1, len, rate, hop, f)
             + (IF covers(results[k], len, hop, f)
                THEN weight(results[k], len, rate, hop, f) ELSE 0)

\* a frame without weight is given half a weight
zero_weight_halved(total_weight) ==
    IF total_weight = 0 THEN WeightScale \div 2 ELSE total_weight

\* weights[weights == 0] = 1
safe_weight(total_weight) ==
    IF total_weight = 0 THEN WeightScale ELSE total_weight

\* novelty = combined_novelty / weights
combine_chunks(results, len, rate, hop) ==
    [p \in 1..time_to_frames(len, hop) |->
        LET total_weight == weights(results, Len(results), len, rate, hop, p - 1)
        IN (combined_novelty(results, Len(results), len, rate, hop, p - 1) * Denominator)
               \div safe_weight(total_weight)]

SeqMin(q) == CHOOSE x \in {q[k] : k \in 1..Len(q)} : \A k \in 1..Len(q) : x <= q[k]
SeqMax(q) == CHOOSE x \in {q[k] : k \in 1..Len(q)} : \A k \in 1..Len(q) : x >= q[k]

\* (novelty - novelty.min()) / (novelty.max() - novelty.min() + 1e-8): the model
\* keeps the numerators; 1.0 is then the largest of them
normalize(q) == LET lowest == SeqMin(q) IN [k \in 1..Len(q) |-> q[k] - lowest]
unit_of(q) == IF q = <<>> THEN 0 ELSE SeqMax(q)

chunked_novelty(results, len, rate, hop) ==
    normalize(combine_chunks(results, len, rate, hop))

\* the worker results in the order the tasks were submitted
RECURSIVE insert_by_start(_, _)
insert_by_start(sorted, x) ==
    IF sorted = <<>> THEN <<x>>
    ELSE IF Head(sorted)[1] <= x[1]
         THEN <<Head(sorted)>> \o insert_by_start(Tail(sorted), x)
         ELSE <<x>> \o sorted

RECURSIVE submission_order(_, _)
submission_order(results, acc) ==
    IF results = <<>> THEN acc
    ELSE submission_order(Tail(results), insert_by_start(acc, Head(results)))

\* what a worker may return for a chunk of n frames: silence, or one spike
ChunkCurves(n) ==
    {[k \in 1..n |-> 0]} \cup {[k \in 1..n |-> IF k = p THEN 100 ELSE 0] : p \in 1..n}

\* <<duration in seconds, hop_length>>: two or three chunks, fades of one
\* and of three frames
ChunkInputs == {<<660, 20>>, <<660, 60>>, <<1200, 60>>}

ChunkInit ==
    /\ sr \in SampleRates
    /\ \E input \in ChunkInputs :
          /\ len_y = input[1] * sr
          /\ hop_length = input[2]
    /\ len_y > chunk_duration * sr
    /\ pending = 0..(total_chunks(len_y, sr) - 1)
    /\ all_novelty = <<>>
    /\ chunk_pc = "workers"
    /\ novelty = <<>>
    /\ sensitivity = 5
    /\ boundaries = <<>>
    /\ peaksIdle
    /\ mixIdle
    /\ callIdle

\* a worker returns (start_idx, novelty_chunk); imap_unordered hands the
\* results over in the order the workers finish
WorkerCompletes ==
    /\ chunk_pc = "workers"
    /\ \E i \in pending :
        /\ \E nov \in ChunkCurves(chunk_frames(i, len_y, sr, hop_length)) :
              all_novelty' = Append(all_novelty, <<chunk_start(i, sr), nov>>)
        /\ pending' = pending \ {i}
    /\ UNCHANGED <<peaksVars, mixVars, callVars, len_y, chunk_pc>>

\* a worker raises: the exception leaves imap_unordered and the method
WorkerFails ==
    /\ chunk_pc = "workers"
    /\ pending # {}
    /\ chunk_pc' = "raised"
    /\ UNCHANGED <<peaksVars, mixVars, callVars, len_y, pending, all_novelty>>

\* all results are in: combine, normalise, pick the peaks
CombineChunks ==
    /\ chunk_pc = "workers"
    /\ pending = {}
    /\ novelty' = chunked_novelty(all_novelty, len_y, sr, hop_length)
    /\ \E s \in {0, 10}, n \in {0, 2} :
          /\ sensitivity' = s
          /\ expected_count' = n
          /\ boundaries' = find_peaks_unit(novelty', unit_of(novelty'), sr,
                                          hop_length, s, n)
    /\ chunk_pc' = "done"
    /\ UNCHANGED <<sr, hop_length, sens_b, boundaries_b, fp_mode, mixVars, callVars, len_y,
                   pending, all_novelty>>

ChunkNext == WorkerCompletes \/ WorkerFails \/ CombineChunks

SpecChunked == ChunkInit /\ [][ChunkNext]_vars

----------------------------------------------------------------------------
(* Specification of _find_peaks as a pure function: Init draws the curve,  *)
(* the sample rate and the hop length; each action applies the function    *)
(* twice, with two sensitivities, in one of its two modes.                 *)

PeaksInit ==
    /\ novelty \in SeqsUpTo(Levels, MaxFrames)
    /\ sr \in SampleRates
    /\ hop_length \in HopLengths
    /\ sensitivity = 0
    /\ sens_b = 0
    /\ expected_count = 0
    /\ boundaries = <<>>
    /\ boundaries_b = <<>>
    /\ fp_mode = "input"
    /\ mixIdle
    /\ chunkIdle
    /\ callIdle

FindPeaksThreshold ==
    /\ fp_mode = "input"
    /\ \E s1 \in Sensitivities, s2 \in Sensitivities :
        /\ sensitivity' = s1
        /\ sens_b' = s2
        /\ boundaries' = find_peaks(novelty, sr, hop_length, s1, 0)
        /\ boundaries_b' = find_peaks(novelty, sr, hop_length, s2, 0)
    /\ expected_count' = 0
    /\ fp_mode' = "threshold"
    /\ UNCHANGED <<novelty, sr, hop_length, mixVars, chunkVars, callVars>>

FindPeaksCount ==
    /\ fp_mode = "input"
    /\ \E s1 \in Sensitivities, s2 \in Sensitivities, n \in 1..MaxExpected :
        /\ sensitivity' = s1
        /\ sens_b' = s2
        /\ expected_count' = n
        /\ boundaries' = find_peaks(novelty, sr, hop_length, s1, n)
        /\ boundaries_b' = find_peaks(novelty, sr, hop_length, s2, n)
    /\ fp_mode' = "count"
    /\ UNCHANGED <<novelty, sr, hop_length, mixVars, chunkVars, callVars>>

PeaksNext == FindPeaksThreshold \/ FindPeaksCount

SpecPeaks == PeaksInit /\ [][PeaksNext]_vars

----------------------------------------------------------------------------
(* calculate_string_similarity and calculate_track_match_score called on   *)
(* their own.  A text is the sequence of its whitespace-separated words,   *)
(* upper or lower case; an argument is None or <<text>>.                   *)

\* str.lower() on the words of the model
Lower(word) == IF word = "X" THEN "x" ELSE IF word = "Y" THEN "y" ELSE word

\* set(str.lower().split())
text_words(text) == {Lower(text[k]) : k \in 1..Len(text)}

\* the argument as calculate_string_similarity sees it after normalisation
normalized(arg) == IF arg = None THEN None ELSE Str(text_words(arg[1]))

Texts ==
    {<<>>, <<"x">>, <<"X">>, <<"y">>, <<"x", "y">>, <<"Y", "x">>, <<"x", "z">>,
     <<"x", "y", "z">>}

TextArgs == {None} \cup {<<t>> : t \in Texts}

\* no audio is looked at
noAudio ==
    /\ novelty = <<>>
    /\ sr \in SampleRates
    /\ hop_length \in MixHops
    /\ sensitivity = 5
    /\ boundaries = <<>>
    /\ peaksIdle

ScoreInit ==
    /\ call \in [recognized_artist : TextArgs, recognized_title : TextArgs,
                 tracklist_artist : TextArgs, tracklist_title : TextArgs]
    /\ returned = <<>>
    /\ call_pc = "input"
    /\ noAudio
    /\ mixIdle
    /\ chunkIdle

\* calculate_string_similarity(recognized_artist, tracklist_artist)
CompareStrings ==
    /\ call_pc = "input"
    /\ returned' = calculate_string_similarity(normalized(call.recognized_artist),
                                               normalized(call.tracklist_artist))
    /\ call_pc' = "calculate_string_similarity"
    /\ UNCHANGED <<peaksVars, mixVars, chunkVars, call>>

\* calculate_track_match_score on the four fields, and on the same fields
\* with artist and title exchanged
ScoreTrack ==
    /\ call_pc = "input"
    /\ returned' =
           [score |-> calculate_track_match_score(
                          normalized(call.recognized_artist),
                          normalized(call.recognized_title),
                          normalized(call.tracklist_artist),
                          normalized(call.tracklist_title)),
            exchanged |-> calculate_track_match_score(
                              normalized(call.recognized_title),
                              normalized(call.recognized_artist),
                              normalized(call.tracklist_title),
                              normalized(call.tracklist_artist))]
    /\ call_pc' = "calculate_track_match_score"
    /\ UNCHANGED <<peaksVars, mixVars, chunkVars, call>>

ScoreNext == CompareStrings \/ ScoreTrack

SpecScore == ScoreInit /\ [][ScoreNext]_vars

----------------------------------------------------------------------------
(* CueSheetGenerator called on its own.  Times are multiples of 1/8 s,     *)
(* which binary floating point holds exactly.                              *)

MaxCueSteps == 24
MaxBoundaries == 3

CueTimes ==
    {base + k * 125 : base \in {0, 59000, 90000, 3599000, 5999000}, k \in 0..MaxCueSteps}

CueBoundaryLists == SeqsUpTo({5000, 90500, 3600000}, MaxBoundaries)

CueTracklists ==
    {<<>>,
     <<[number |-> 1, artist |-> Str({"x"}), title |-> Str({"y"}), timestamp |-> None],
       [number |-> 2, artist |-> None, title |-> Str({"x", "y"}), timestamp |-> None],
       [number |-> 3, artist |-> Str({"z"}), title |-> None, timestamp |-> None]>>}

CueInit ==
    /\ call \in [seconds : CueTimes, boundaries : CueBoundaryLists,
                 tracklist : CueTracklists, ext : {".mp3", ".aac"}]
    /\ returned = <<>>
    /\ call_pc = "input"
    /\ noAudio
    /\ mixIdle
    /\ chunkIdle

\* seconds_to_cue_time(seconds)
ConvertTime ==
    /\ call_pc = "input"
    /\ returned' = cue_time_string(seconds_to_cue_time(call.seconds))
    /\ call_pc' = "seconds_to_cue_time"
    /\ UNCHANGED <<peaksVars, mixVars, chunkVars, call>>

\* generate_cue(audio_filepath, boundaries, output_filepath, tracklist)
WriteCue ==
    /\ call_pc = "input"
    /\ returned' = cue_content(call.ext, generate_cue(call.boundaries, call.tracklist))
    /\ call_pc' = "generate_cue"
    /\ UNCHANGED <<peaksVars, mixVars, chunkVars, call>>

CueNext == ConvertTime \/ WriteCue

SpecCue == CueInit /\ [][CueNext]_vars

----------------------------------------------------------------------------
(* The partition of the signal into chunk tasks, taken on its own: Init    *)
(* draws the sample rate and the number of samples, detect_boundaries      *)
(* chooses between the full and the chunked method, and the chunked method *)
(* lays out its tasks.                                                     *)

MaxSignalSeconds == 1800

PartitionRates == {1, 2}

\* chunk_tasks as <<i, start_idx, end_idx>> records (chunk = y[start_idx:end_idx])
chunk_tasks(len, rate) ==
    [k \in 1..total_chunks(len, rate) |->
        [i |-> k - 1,
         start_idx |-> chunk_start(k - 1, rate),
         end_idx |-> chunk_end(k - 1, len, rate)]]

PartitionInit ==
    /\ \E rate \in PartitionRates :
          call \in [sr : {rate}, len_y : (590 * rate)..(MaxSignalSeconds * rate)]
    /\ returned = <<>>
    /\ call_pc = "input"
    /\ noAudio
    /\ mixIdle
    /\ chunkIdle

\* duration <= chunk_duration: the whole signal is analysed at once
DetectFull ==
    /\ call_pc = "input"
    /\ call.len_y <= chunk_duration * call.sr
    /\ call_pc' = "_detect_boundaries_full"
    /\ UNCHANGED <<peaksVars, mixVars, chunkVars, call, returned>>

\* duration > chunk_duration: the chunk tasks are prepared
PrepareChunkTasks ==
    /\ call_pc = "input"
    /\ call.len_y > chunk_duration * call.sr
    /\ returned' = chunk_tasks(call.len_y, call.sr)
    /\ call_pc' = "_detect_boundaries_chunked"
    /\ UNCHANGED <<peaksVars, mixVars, chunkVars, call>>

PartitionNext == DetectFull \/ PrepareChunkTasks

SpecPartition == PartitionInit /\ [][PartitionNext]_vars

----------------------------------------------------------------------------
(* Claims about _find_peaks *)

StrictlyIncreasing(b) == \A k \in 1..(Len(b) - 1) : b[k] < b[k + 1]

MinSpacing(b) == \A k \in 1..(Len(b) - 1) : b[k + 1] - b[k] >= 60000

\* C1: in both modes the returned boundaries are strictly increasing and
\* every two consecutive boundaries are at least 60 seconds apart.
C1_IncreasingAndSpaced ==
    fp_mode # "input" =>
        /\ StrictlyIncreasing(boundaries)
        /\ MinSpacing(boundaries)

\* C2: count-constrained mode returns at most expected_count - 1 boundaries.
C2_AtMostTarget ==
    fp_mode = "count" => Len(boundaries) <= expected_count - 1

\* C3: in threshold mode a sensitivity at least as high returns at least as
\* many boundaries.
C3_Monotone ==
    (fp_mode = "threshold" /\ sensitivity <= sens_b) => Len(boundaries) <= Len(boundaries_b)

\* a strictly higher sensitivity found strictly more boundaries
C3_Witness ==
    /\ fp_mode = "threshold"
    /\ sensitivity < sens_b
    /\ boundaries # <<>>
    /\ Len(boundaries) < Len(boundaries_b)

\* C14: with expected_count given, two sensitivities return the same list.
C14_CountIgnoresSensitivity ==
    fp_mode = "count" => boundaries = boundaries_b

\* two sensitivities that the threshold rule tells apart on this curve
C14_Witness ==
    /\ fp_mode = "count"
    /\ sensitivity # sens_b
    /\ boundaries # <<>>
    /\ find_peaks(novelty, sr, hop_length, sensitivity, 0)
           # find_peaks(novelty, sr, hop_length, sens_b, 0)

\* the frames that are strict local maxima of the curve
LocalMaxima == {i \in 1..(Len(novelty) - 2) : IsLocalMax(novelty, i)}
WellSpaced(P) ==
    \A i \in P, j \in P : i # j => Abs(i - j) * hop_length * 1000 >= 60000 * sr

\* C15: when expected_count - 1 of the curve's strict local maxima are pairwise
\* at least 60 s apart, count-constrained picking returns exactly
\* expected_count - 1 boundaries (two tracks or more).
C15_ExactCount ==
    (/\ fp_mode = "count"
     /\ expected_count >= 2
     /\ \E P \in SUBSET LocalMaxima :
            Cardinality(P) >= expected_count - 1 /\ WellSpaced(P))
        => Len(boundaries) = expected_count - 1

\* no frame of the curve is strictly above both of its neighbours
NoStrictMaximum ==
    \A k \in 2..(Len(novelty) - 1) :
        ~(novelty[k] > novelty[k - 1] /\ novelty[k] > novelty[k + 1])

\* the TRACK lines of the cue sheet written for the boundaries
TrackLines(bnds) ==
    SelectSeq(cue_content(".mp3", generate_cue(bnds, <<>>)), LAMBDA l : l.kind = "TRACK")

\* C21: for a curve without a strict local maximum _find_peaks returns the
\* empty list in threshold mode and in count-constrained mode, whatever the
\* sensitivity, and the cue sheet generated from it has exactly one track.
C21_FlatCurveOneTrack ==
    (fp_mode # "input" /\ NoStrictMaximum) =>
        /\ boundaries = <<>>
        /\ boundaries_b = <<>>
        /\ Len(generate_cue(boundaries, <<>>)) = 1
        /\ Len(TrackLines(boundaries)) = 1

\* a curve of full length that rises to a plateau, picked in count mode for
\* three tracks
C21_Witness ==
    /\ fp_mode = "count"
    /\ expected_count = 3
    /\ Len(novelty) = MaxFrames
    /\ novelty[1] < novelty[MaxFrames]
    /\ NoStrictMaximum
    /\ boundaries = <<>>

----------------------------------------------------------------------------
(* Claims about segment_mix, checked under Spec *)

\* detect_boundaries invocations made by the retry branch
RedetectCalls ==
    detect_calls - (IF pc # "start" /\ ~has_timestamps(supplied) THEN 1 ELSE 0)

\* ... and those of them that raised
RedetectFailures == IF pc = "fatal" THEN 0 ELSE detect_failures

C5_InvalidInputsUseBudget ==
    invalid_inputs + retry_count <= max_retries

\* C6: a run the operator ends (abort, end of input, interrupt) exits with a
\* non-zero status.
C6_AbortIsNonSuccess ==
    pc = "aborted" => exit_status # 0

\* C7: with a timestamp in the supplied tracklist, detect_boundaries is never
\* invoked.
C7_NoDetectionWithTimestamps ==
    has_timestamps(supplied) => detect_calls = 0

\* C8: the boundary list of segment_mix is time-ascending at every point of
\* the run.
C8_BoundariesAscending ==
    \A k \in 1..(Len(boundaries) - 1) : boundaries[k] <= boundaries[k + 1]

\* C9: once a detect_boundaries call has raised, the run is ended as fatal
\* and no cue sheet is produced.
C9_DetectFailureIsFatal ==
    detect_failures > 0 => (pc = "fatal" /\ cue = <<>>)

\* the positions scored for track number n, and the scores found there
SearchPositions(n) == Max(1, n - 2)..Min(Len(tracklist), n + 2)
ScoreAt(result, p) ==
    calculate_track_match_score(result.artist, result.title,
                                tracklist[p].artist, tracklist[p].title)
TopScore(result) ==
    LET scores == {ScoreAt(result, p) : p \in SearchPositions(result.track_number)}
    IN CHOOSE top \in scores : \A x \in scores : x <= top
EntriesOf(result) ==
    {j \in 1..Len(mismatches) : mismatches[j].track_num = result.track_number}

C19_LastMismatchesShown ==
    (pc \in {"convert", "done"} /\ retry_count = max_retries /\ mismatches # <<>>) =>
        /\ shown = mismatches
        /\ pc = "done" =>
               /\ Len(cue) = Len(boundaries) + 1
               /\ \A k \in 1..Len(boundaries) :
                      cue[k + 1].index = seconds_to_cue_time(boundaries[k])

BoundaryAt(i) == IF i = 0 THEN 0 ELSE boundaries[i]

\* the pass over the current boundaries has run to its end
PassCompleted ==
    \/ pc \in {"recognize", "rerecognize"} /\ seg = Len(boundaries)
    \/ pc \in {"prompt", "convert", "aborted"}

\* C23: the i-th segment submitted in a pass spans [b(i-1), b(i)] and carries
\* track number i; no more segments are submitted than there are boundaries (the
\* part after the last boundary is never submitted), a completed pass has
\* submitted exactly one segment per boundary, and the results of the pass carry
\* strictly increasing track numbers of submitted segments (at most one result
\* per segment).
C23_SegmentsOfAPass ==
    /\ Len(submitted) <= Len(boundaries)
    /\ \A i \in 1..Len(submitted) :
           submitted[i] = <<BoundaryAt(i - 1), BoundaryAt(i), i>>
    /\ PassCompleted => Len(submitted) = Len(boundaries)
    /\ \A j \in 1..Len(recognized_tracklist) :
           recognized_tracklist[j].track_number \in 1..Len(submitted)
    /\ \A j \in 1..(Len(recognized_tracklist) - 1) :
           recognized_tracklist[j].track_number < recognized_tracklist[j + 1].track_number

\* a retry pass over two boundaries has ended with a result for the second
\* segment only
C23_Witness ==
    /\ pc = "rerecognize"
    /\ seg = Len(boundaries)
    /\ Len(submitted) = 2
    /\ Len(recognized_tracklist) = 1
    /\ recognized_tracklist[1].track_number = 2

\* what a cue block shows of a text: the text, or nothing for None and ""
Written(text) == IF Truthy(text) THEN text ELSE None

\* C25: once the recognition results have replaced the tracklist, cue block
\* TRACK n carries the PERFORMER and TITLE of the result whose track_number is n,
\* and a block without such a result carries no PERFORMER and no TITLE of any
\* result.
C25_MetadataByTrackNumber ==
    (/\ pc = "done"
     /\ recognized_tracklist # <<>>
     /\ tracklist = recognized_as_tracklist(recognized_tracklist)) =>
        \A n \in 1..Len(cue) :
            LET own == {j \in 1..Len(recognized_tracklist) :
                           recognized_tracklist[j].track_number = n}
            IN IF own = {}
               THEN cue[n].performer = None /\ cue[n].title = None
               ELSE \A j \in own :
                       /\ cue[n].performer = Written(recognized_tracklist[j].artist)
                       /\ cue[n].title = Written(recognized_tracklist[j].title)

\* C26: in a run whose tracklist has no timestamps, a retry (one more
\* detect_boundaries call, whatever the new sensitivity) leaves the boundary list
\* as it was before the retry.
C26_RetryKeepsBoundaries ==
    [][(/\ pc = "prompt"
        /\ pc' = "rerecognize"
        /\ ~has_timestamps(supplied))
           => (/\ detect_calls' = detect_calls + 1
               /\ boundaries' = boundaries)]_vars

\* a re-detection with another sensitivity has returned to a run that detected
\* its boundaries itself
C26_Witness ==
    /\ pc = "rerecognize"
    /\ seg = 0
    /\ ~has_timestamps(supplied)
    /\ new_sensitivity # sensitivity
    /\ boundaries # <<>>

\* C27: a result whose artist and title equal those of the tracklist entry at
\* its own track number is never recorded as a mismatch: no mismatch entry has
\* equal recognized and expected labels.
C27_ExactMatchIsNoMismatch ==
    \A k \in 1..Len(mismatches) :
        mismatches[k].recognized # mismatches[k].expected

\* the tracklist is still the one scoring reads (it is replaced only when the
\* cue sheet is written)
ScoringTracklist == verify_boundaries /\ tracklist # <<>> /\ pc # "done"

\* C28: every result that a scoring pass reads has a track number n with
\* 1 <= n <= len(tracklist); its search window max(1, n - 2) .. min(len, n + 2)
\* is not empty and tracklist[n - 1] exists.
C28_TrackNumbersInRange ==
    ScoringTracklist =>
        \A j \in 1..Len(recognized_tracklist) :
            \A n \in {recognized_tracklist[j].track_number} :
                /\ 1 <= n
                /\ n <= Len(tracklist)
                /\ Max(1, n - 2) < Min(Len(tracklist) + 1, n + 3)

\* a retry pass was scored whose last result carries the number of the last
\* tracklist entry
C28_Witness ==
    /\ ScoringTracklist
    /\ pc = "prompt"
    /\ retry_count >= 1
    /\ recognized_tracklist # <<>>
    /\ recognized_tracklist[Len(recognized_tracklist)].track_number = Len(tracklist)

\* C29: an input the prompt rejects (invalid choice, malformed sensitivity,
\* sensitivity out of range) leaves the run at the prompt with the same boundary
\* list, current sensitivity, retry count, recognized results and mismatch list,
\* and makes no detection and no recognition call.
C29_RejectedInputChangesNothing ==
    [][(pc = "prompt" /\ invalid_inputs' = invalid_inputs + 1)
           => (/\ pc' = "prompt"
               /\ UNCHANGED <<boundaries, sensitivity, retry_count, recognized_tracklist,
                              mismatches, detect_calls, seg, submitted>>)]_vars

\* inputs rejected at the prompt of a retry pass, the last one a sensitivity out
\* of range
C29_Witness ==
    /\ pc = "prompt"
    /\ invalid_inputs >= 2
    /\ retry_count >= 1
    /\ new_sensitivity > 10
    /\ boundaries # <<>>

----------------------------------------------------------------------------
(* Claims about the command line, checked under SpecCli *)

----------------------------------------------------------------------------
(* Claims about the match score, checked under SpecScore *)

Words(arg) == text_words(arg[1])
Jaccard(a, b) ==
    (Cardinality(Words(a) \cap Words(b)) * SimScale) \div Cardinality(Words(a) \cup Words(b))
HasWords(arg) == arg # None /\ Words(arg) # {}
IsEmpty(arg) == arg = None \/ Words(arg) = {}

\* C12: the score is 0.4 x the Jaccard similarity of the artists' word sets
\* plus 0.6 x that of the titles': 1.0 for identical strings, 0.0 when both
\* fields have disjoint word sets, and artists alike with titles differing
\* scores strictly less than titles alike with artists differing as much.
C12_WeightedJaccard ==
    call_pc = "calculate_track_match_score" =>
        LET ra == call.recognized_artist
            rt == call.recognized_title
            ta == call.tracklist_artist
            tt == call.tracklist_title
        IN /\ (HasWords(ra) /\ HasWords(rt) /\ HasWords(ta) /\ HasWords(tt)) =>
                  /\ returned.score = 4 * Jaccard(ra, ta) + 6 * Jaccard(rt, tt)
                  /\ (Words(ra) \cap Words(ta) = {} /\ Words(rt) \cap Words(tt) = {}) =>
                         returned.score = 0
                  /\ (Jaccard(ra, ta) = SimScale /\ Jaccard(rt, tt) < SimScale) =>
                         returned.score < returned.exchanged
           /\ (ra # None /\ rt # None /\ ra = ta /\ rt = tt) =>
                  returned.score = 10 * SimScale

\* artists alike, titles sharing some but not all words
C12_Witness ==
    /\ call_pc = "calculate_track_match_score"
    /\ HasWords(call.recognized_artist) /\ HasWords(call.tracklist_artist)
    /\ HasWords(call.recognized_title) /\ HasWords(call.tracklist_title)
    /\ call.recognized_artist # call.tracklist_artist
    /\ Jaccard(call.recognized_artist, call.tracklist_artist) = SimScale
    /\ Jaccard(call.recognized_title, call.tracklist_title) \in 1..(SimScale - 1)
    /\ returned.score < returned.exchanged

\* C13: the similarity of two fields is 1.0 when both are empty (None or
\* without words) and 0.0 when exactly one of them is.
C13_EmptyFields ==
    call_pc = "calculate_string_similarity" =>
        LET a == call.recognized_artist
            b == call.tracklist_artist
        IN /\ (IsEmpty(a) /\ IsEmpty(b)) => returned = SimScale
           /\ (IsEmpty(a) # IsEmpty(b)) => returned = 0

----------------------------------------------------------------------------
(* Claims about the cue sheet, checked under SpecCue *)

\* the number a two-or-more digit field stands for
RECURSIVE NumberOf(_)
NumberOf(digits) ==
    IF digits = <<>> THEN 0
    ELSE NumberOf(SubSeq(digits, 1, Len(digits) - 1)) * 10 + digits[Len(digits)]

\* C16: seconds_to_cue_time(t) is MM:SS:FF, each field of two digits or more,
\* with MM whole minutes (not capped at 59), SS whole seconds in 0..59 and FF
\* the rest of the second in 75ths, cut off, in 0..74; 0 gives 00:00:00,
\* 90.5 gives 01:30:37 and 3600 gives 60:00:00.
C16_CueTime ==
    call_pc = "seconds_to_cue_time" =>
        LET mm == NumberOf(returned[1])
            ss == NumberOf(returned[2])
            ff == NumberOf(returned[3])
            rest == call.seconds - mm * 60000 - ss * 1000
        IN /\ Len(returned) = 3
           /\ \A k \in 1..3 : Len(returned[k]) >= 2
           /\ \A k \in 1..3 : Len(returned[k]) > 2 => returned[k][1] # 0
           /\ mm >= 0 /\ ss \in 0..59 /\ ff \in 0..74
           /\ rest \in 0..999
           /\ ff * 1000 <= rest * 75 /\ rest * 75 < (ff + 1) * 1000
           /\ call.seconds = 0 => returned = <<<<0, 0>>, <<0, 0>>, <<0, 0>>>>
           /\ call.seconds = 90500 => returned = <<<<0, 1>>, <<3, 0>>, <<3, 7>>>>
           /\ call.seconds = 3600000 => returned = <<<<6, 0>>, <<0, 0>>, <<0, 0>>>>

\* a time past 99 minutes whose frame count is cut off, not rounded
C16_Witness ==
    /\ call_pc = "seconds_to_cue_time"
    /\ Len(returned[1]) = 3
    /\ (call.seconds % 1000) * 75 % 1000 >= 500
    /\ NumberOf(returned[3]) > 0

LinesOf(kind) == SelectSeq(returned, LAMBDA line : line.kind = kind)

\* C17: for k boundaries the cue sheet has one FILE line, first, and k + 1
\* TRACK blocks numbered 01, 02, ... each with one INDEX line: 00:00:00 for
\* the first and the cue time of boundary i for block i + 1.
C17_TrackBlocks ==
    call_pc = "generate_cue" =>
        LET k == Len(call.boundaries)
            tracks == LinesOf("TRACK")
            indexes == LinesOf("INDEX")
        IN /\ Len(LinesOf("FILE")) = 1
           /\ returned[1].kind = "FILE"
           /\ Len(tracks) = k + 1
           /\ \A j \in 1..Len(tracks) : tracks[j].text = format_02d(j)
           /\ Len(indexes) = k + 1
           /\ indexes[1].text = <<<<0, 0>>, <<0, 0>>, <<0, 0>>>>
           /\ \A j \in 1..k :
                  indexes[j + 1].text = cue_time_string(seconds_to_cue_time(call.boundaries[j]))
           /\ returned[Len(returned)].kind = "INDEX"
           /\ \A p \in 1..Len(returned) :
                  returned[p].kind = "TRACK" =>
                      \E q \in (p + 1)..Len(returned) :
                          /\ returned[q].kind = "INDEX"
                          /\ \A x \in (p + 1)..(q - 1) :
                                 returned[x].kind \in {"PERFORMER", "TITLE"}

\* a sheet with no boundaries, and so with TRACK 01 alone
C17_Witness ==
    /\ call_pc = "generate_cue"
    /\ call.boundaries = <<>>
    /\ call.tracklist # <<>>
    /\ Len(LinesOf("TRACK")) = 1
    /\ LinesOf("TRACK")[1].text = <<0, 1>>

----------------------------------------------------------------------------
(* Claims about the chunk partition, checked under SpecPartition *)

ChunkLength(task) == task.end_idx - task.start_idx

\* C22: chunk i starts at sample i * stride with stride = chunk samples -
\* overlap samples; the chunks cover every sample of the signal (the first
\* starts at sample 0, the last ends at the last sample, no chunk starts after
\* the end of the one before it) and two consecutive chunks share exactly the
\* overlap length.
C22_StrideAndCoverage ==
    call_pc = "_detect_boundaries_chunked" =>
        /\ returned # <<>>
        /\ \A k \in 1..Len(returned) :
               returned[k].start_idx = (k - 1) * (10 * 60 - 60) * call.sr
        /\ returned[1].start_idx = 0
        /\ returned[Len(returned)].end_idx = call.len_y
        /\ \A k \in 1..(Len(returned) - 1) :
               returned[k].end_idx - returned[k + 1].start_idx = 60 * call.sr
        /\ \A x \in {0, call.len_y \div 2, call.len_y - 1} :
               \E k \in 1..Len(returned) :
                   returned[k].start_idx <= x /\ x < returned[k].end_idx

\* three chunks or more, the last one cut short by the end of the signal
C22_Witness ==
    /\ call_pc = "_detect_boundaries_chunked"
    /\ Len(returned) >= 3
    /\ ChunkLength(returned[Len(returned)]) < 10 * 60 * call.sr

\* C30: every chunk, the final one included, is non-empty and longer than the
\* overlap, and every chunk but the last has the full chunk length.
C30_ChunkLengths ==
    call_pc = "_detect_boundaries_chunked" =>
        /\ \A k \in 1..Len(returned) :
               /\ ChunkLength(returned[k]) > 0
               /\ ChunkLength(returned[k]) > 60 * call.sr
        /\ \A k \in 1..(Len(returned) - 1) :
               ChunkLength(returned[k]) = 10 * 60 * call.sr

\* the shortest final chunk there is: one sample longer than the overlap
C30_Witness ==
    /\ call_pc = "_detect_boundaries_chunked"
    /\ Len(returned) >= 2
    /\ ChunkLength(returned[Len(returned)]) = 60 * call.sr + 1

----------------------------------------------------------------------------
(* Claims about _detect_boundaries_chunked, checked under SpecChunked *)

\* weights[f] once every worker result has been blended in
AccumulatedWeight(f) ==
    weights(all_novelty, Len(all_novelty), len_y, sr, hop_length, f)

\* C24: once the chunk curves are recombined, the divisor of every frame is
\* different from 0, and a frame whose accumulated weight is 0 is divided by 1
\* (WeightScale stands for the weight 1.0).
C24_NoDivisionByZero ==
    chunk_pc = "done" =>
        \A f \in 0..(time_to_frames(len_y, hop_length) - 1) :
            \A w \in {AccumulatedWeight(f)} :
                /\ safe_weight(w) # 0
                /\ w = 0 => safe_weight(w) = WeightScale
                /\ w # 0 => safe_weight(w) = w

\* a layout with a frame of accumulated weight 0 and a chunk whose fade length
\* is 0
C24_Witness ==
    /\ chunk_pc = "done"
    /\ \E f \in 0..(time_to_frames(len_y, hop_length) - 1) : AccumulatedWeight(f) = 0
    /\ \E k \in 1..Len(all_novelty) : fade_len(all_novelty[k], len_y, sr, hop_length) = 0

\* C10: whatever the order in which the workers finish, the combined novelty
\* curve and the boundaries are those of the results taken in submission order.
C10_OrderIndependent ==
    chunk_pc = "done" =>
        \A ordered \in {submission_order(all_novelty, <<>>)} :
            /\ novelty = chunked_novelty(ordered, len_y, sr, hop_length)
            /\ boundaries = find_peaks_unit(novelty, unit_of(novelty), sr, hop_length,
                                            sensitivity, expected_count)

\* the last chunk arrived first, two results overlap with a spike each, and
\* boundaries were found
C10_Witness ==
    /\ chunk_pc = "done"
    /\ Len(all_novelty) >= 2
    /\ all_novelty[1][1] > all_novelty[2][1]
    /\ \A k \in 1..Len(all_novelty) : \E p \in 1..Len(all_novelty[k][2]) :
           all_novelty[k][2][p] > 0
    /\ boundaries # <<>>

====
